---- MODULE Spec2Model ----
(***************************************************************************)
(* Model of the two command line tools of 3d-tools:                        *)
(*   formats/swmaps.py   SW Maps point export -> PNEZD text                *)
(*   unit_translate.py   rescale column 3 of delimited rows                *)
(*                                                                         *)
(* Text is a sequence of one-character strings.  A line of input is text   *)
(* without its line terminator (no captured group of line_re and no field  *)
(* read by unit_translate can hold the terminator of a line the model      *)
(* feeds).  A float is kept as an exact decimal in canonical form (sign,   *)
(* integer digits without leading zeros, fraction digits without trailing  *)
(* zeros); for the short decimals of the modelled inputs this is           *)
(* the same equality as that of IEEE doubles and repr() prints it          *)
(* positionally.  A float quotient is the decimal quotient truncated to    *)
(* DivPrec fraction digits.  The text forms float() accepts beyond plain   *)
(* signed decimals (exponents, inf, nan, underscores) are not part of the  *)
(* modelled inputs.                                                        *)
(***************************************************************************)
EXTENDS Integers, Sequences, FiniteSets, TLC

\* ------------------------------------------------------------------ bounds
\* longest input stream (lines of stdin) the model feeds to either tool
MaxLines == 3
\* fraction digits kept of a float quotient
DivPrec == 6

\* ------------------------------------------------------- program constants
\* METER_PER_US_SURVEY_FT = 0.30480061, as the integer 30480061 * 10^-8
METER_PER_US_SURVEY_FT == 30480061
\* decimal places of METER_PER_US_SURVEY_FT
METER_PER_US_SURVEY_FT_PLACES == 8
\* FT_PER_METER = 3.2808399, as the integer 32808399 * 10^-7
FT_PER_METER == 32808399
\* decimal places of FT_PER_METER
FT_PER_METER_PLACES == 7
\* number of comma separated fields cols_pattern spans (FORMAT_VER 2)
ColsPatternFields == 13

\* ------------------------------------------------------------ text helpers
DigitChars == <<"0", "1", "2", "3", "4", "5", "6", "7", "8", "9">>

Digits == {DigitChars[i] : i \in 1..10}

DigitVal(c) == (CHOOSE i \in 1..10 : DigitChars[i] = c) - 1

IsDigits(s) == \A i \in 1..Len(s) : s[i] \in Digits

IsPrefix(p, s) == Len(p) <= Len(s) /\ SubSeq(s, 1, Len(p)) = p

\* the maximal runs of s between occurrences of sep ("a,,b" -> a, "", b)
Split(s, sep) ==
    LET at == {i \in 1..Len(s) : s[i] = sep}
        \* position of the k-th separator; 0 before the first, Len(s) + 1
        \* after the last
        cut(k) == IF k = 0 THEN 0
                  ELSE IF k > Cardinality(at) THEN Len(s) + 1
                  ELSE CHOOSE p \in at : Cardinality({q \in at : q < p}) = k - 1
    IN  [k \in 1..(Cardinality(at) + 1) |-> SubSeq(s, cut(k - 1) + 1, cut(k) - 1)]

RECURSIVE Join(_, _)
Join(fields, sep) ==
    IF Len(fields) = 0 THEN <<>>
    ELSE IF Len(fields) = 1 THEN fields[1]
    ELSE fields[1] \o <<sep>> \o Join(Tail(fields), sep)

RECURSIVE StripLeft(_, _)
StripLeft(s, c) ==
    IF Len(s) > 0 /\ s[1] = c THEN StripLeft(Tail(s), c) ELSE s

RECURSIVE StripRight(_, _)
StripRight(s, c) ==
    IF Len(s) > 0 /\ s[Len(s)] = c THEN StripRight(SubSeq(s, 1, Len(s) - 1), c)
    ELSE s

RECURSIVE Zeros(_)
Zeros(n) == IF n <= 0 THEN <<>> ELSE <<"0">> \o Zeros(n - 1)

\* ------------------------------------------------------------ int and str
RECURSIVE IntOfFrom(_, _, _)
IntOfFrom(s, i, acc) ==
    IF i > Len(s) THEN acc ELSE IntOfFrom(s, i + 1, acc * 10 + DigitVal(s[i]))

\* int(s) for a text of decimal digits
IntOf(s) == IntOfFrom(s, 1, 0)

RECURSIVE NatDigits(_)
NatDigits(n) ==
    IF n < 10 THEN <<DigitChars[n + 1]>>
    ELSE Append(NatDigits(n \div 10), DigitChars[(n % 10) + 1])

\* str(n) of an int
StrInt(n) == IF n < 0 THEN <<"-">> \o NatDigits(0 - n) ELSE NatDigits(n)

\* ------------------------------------------------------------------ floats
NotAFloat == [ok |-> FALSE, neg |-> FALSE, ip |-> <<>>, fp |-> <<>>]

\* float(s): surrounding blanks stripped, an optional sign, then digits with
\* at most one point and at least one digit; anything else is a ValueError
\* (ok = FALSE)
ParseFloat(s) ==
    LET t == StripRight(StripLeft(s, " "), " ")
        signed == Len(t) > 0 /\ t[1] \in {"-", "+"}
        body == IF signed THEN Tail(t) ELSE t
        parts == Split(body, ".")
        ip == parts[1]
        fp == IF Len(parts) = 2 THEN parts[2] ELSE <<>>
    IN  IF /\ Len(parts) <= 2
           /\ IsDigits(ip) /\ IsDigits(fp)
           /\ Len(ip) + Len(fp) > 0
        THEN [ok |-> TRUE, neg |-> (signed /\ t[1] = "-"),
              ip |-> StripLeft(ip, "0"), fp |-> StripRight(fp, "0")]
        ELSE NotAFloat

\* repr(x) of a float, as print() and csv.writer render it
ReprFloat(x) ==
    (IF x.neg THEN <<"-">> ELSE <<>>)
    \o (IF x.ip = <<>> THEN <<"0">> ELSE x.ip)
    \o <<".">>
    \o (IF x.fp = <<>> THEN <<"0">> ELSE x.fp)

RECURSIVE LongDiv(_, _, _, _)
\* quotient digits of the digit text ds by the integer d, from position i
\* with remainder r carried in
LongDiv(ds, d, i, r) ==
    IF i > Len(ds) THEN <<>>
    ELSE LET n == r * 10 + DigitVal(ds[i])
         IN  <<DigitChars[(n \div d) + 1]>> \o LongDiv(ds, d, i + 1, n % d)

\* x / (d * 10^-places)
FloatDiv(x, d, places) ==
    LET all == x.ip \o x.fp \o Zeros(places + DivPrec)
        intlen == Len(x.ip) + places
        q == LongDiv(SubSeq(all, 1, intlen + DivPrec), d, 1, 0)
    IN  [ok |-> TRUE, neg |-> x.neg,
         ip |-> StripLeft(SubSeq(q, 1, intlen), "0"),
         fp |-> StripRight(SubSeq(q, intlen + 1, intlen + DivPrec), "0")]

\* ------------------------------------------------- swmaps.py: the patterns
\* the literal of header_re: "ID,Geometry,Remarks,"
HeaderLit ==
    <<"I","D",",","G","e","o","m","e","t","r","y",",","R","e","m","a","r","k",
      "s",",">>

\* the literal that opens the geometry field of cols_pattern: "POINT Z ("
PointZ ==
    <<"P","O","I","N","T"," ","Z"," ","(">>

\* header_re.match(l): the line starts with the literal
HeaderRe(l) == IsPrefix(HeaderLit, l)

NoMatch ==
    [ok |-> FALSE, g1 |-> <<>>, g2 |-> <<>>, g3 |-> <<>>, g4 |-> <<>>,
     g5 |-> <<>>, g6 |-> <<>>]

SetMax(S) == CHOOSE x \in S : \A y \in S : y <= x

\* line_re.match(l) for FORMAT_VER 2.  f = [^,]* cannot cross a comma, so the
\* pattern walks the comma separated fields of l from its start: field 0 is
\* ([0-9]+), field 2 is group 2, field 3 is "POINT Z (" g3 " " g4 " " g5 ")",
\* field 7 is group 6, and fields 8..12 must exist; what follows field 12 is
\* not looked at (match, not fullmatch).  The three groups of the tuple are
\* greedy: g5 is what follows the last blank, g4 what lies between the last
\* two blanks, g3 everything before.
LineRe(l) ==
    LET fields == Split(l, ",")
        geom == IF Len(fields) >= 4 THEN fields[4] ELSE <<>>
        body == IF Len(geom) > Len(PointZ)
                THEN SubSeq(geom, Len(PointZ) + 1, Len(geom) - 1) ELSE <<>>
        sp == {i \in 1..Len(body) : body[i] = " "}
        last == SetMax(sp)
        prev == SetMax(sp \ {last})
    IN  IF /\ Len(fields) >= ColsPatternFields
           /\ fields[1] # <<>> /\ IsDigits(fields[1])
           /\ IsPrefix(PointZ, geom)
           /\ Len(geom) > Len(PointZ) /\ geom[Len(geom)] = ")"
           /\ Cardinality(sp) >= 2
        THEN [ok |-> TRUE, g1 |-> fields[1], g2 |-> fields[3],
              g3 |-> SubSeq(body, 1, prev - 1),
              g4 |-> SubSeq(body, prev + 1, last - 1),
              g5 |-> SubSeq(body, last + 1, Len(body)),
              g6 |-> fields[8]]
        ELSE NoMatch

\* z_m taken from the third component of the geometry tuple
ZGroupTuple(m) == m.g5

\* the group z_m is converted from
ZGroup(m) == m.g6

\* the float() conversions of a matched line all succeed
ConvertsOk(m) ==
    /\ ParseFloat(m.g3).ok
    /\ ParseFloat(m.g4).ok
    /\ ParseFloat(ZGroup(m)).ok

\* the offset subtracted instead of added
PointIdMinus(g1, point_offset) == IntOf(g1) - point_offset

\* point_id = int(m.group(1)) + point_offset
PointId(g1, point_offset) == IntOf(g1) + point_offset

\* PointPNEZD(point_id, northing, easting, z_m, descr) of a matched line
MakePoint(m, point_offset) ==
    [point |-> PointId(m.g1, point_offset),
     northing |-> ParseFloat(m.g4),
     easting |-> ParseFloat(m.g3),
     elevation_m |-> ParseFloat(ZGroup(m)),
     description |-> m.g2]

\* the record put in front of the list instead of at its end
PrependPoint(pts, p) == <<p>> \o pts

\* points.append(p)
AppendPoint(pts, p) == Append(pts, p)

\* ---------------------------------------------------- swmaps.py: the writer
\* the column identifiers of print_header: "#P,N,E,Z,D"
HeaderCols ==
    <<"#","P",",","N",",","E",",","Z",",","D">>

\* the project name main passes: "PROJECT_NAME"
ProjectName ==
    <<"P","R","O","J","E","C","T","_","N","A","M","E">>

\* a value of datetime.now().isoformat(): "2023-08-25T12:43:39"
Time1 ==
    <<"2","0","2","3","-","0","8","-","2","5","T","1","2",":","4","3",":","3",
      "9">>

\* another: "2023-08-25T12:43:40"
Time2 ==
    <<"2","0","2","3","-","0","8","-","2","5","T","1","2",":","4","3",":","4",
      "0">>

\* the values datetime.now().isoformat() may take
Timestamps == {Time1, Time2}

\* the line print_header writes: "#P,N,E,Z,D,{project_name},{timestamp}"
HeaderLine(project_name, timestamp) ==
    Join(<<HeaderCols, project_name, timestamp>>, ",")

\* METER_PER_FT = 0.3048, as the integer 3048 * 10^-4: the constant of the
\* international foot, which print_line does not use
METER_PER_FT == 3048
\* decimal places of METER_PER_FT
METER_PER_FT_PLACES == 4

\* the elevation converted with the international foot
ElevationIntlFt(p, convert_to_feet) ==
    IF convert_to_feet
    THEN FloatDiv(p.elevation_m, METER_PER_FT, METER_PER_FT_PLACES)
    ELSE p.elevation_m

\* elevation of print_line
Elevation(p, convert_to_feet) ==
    IF convert_to_feet
    THEN FloatDiv(p.elevation_m, METER_PER_US_SURVEY_FT, METER_PER_US_SURVEY_FT_PLACES)
    ELSE p.elevation_m

\* the line print_line writes:
\* "{p.point},{p.northing},{p.easting},{elevation},{p.description}"
DataLine(p, convert_to_feet) ==
    Join(<<StrInt(p.point), ReprFloat(p.northing), ReprFloat(p.easting),
           ReprFloat(Elevation(p, convert_to_feet)), p.description>>, ",")

\* ------------------------------------------------------------- the inputs
\* the documented Version-2 line: "54,08/25/2023 12:43:39.500 PDT,pto,POINT Z (-112.83461149 39.57328935 1510.741),39.573289348,-119.834611492,1510.741,1534.672,2.050,4,0.001,0.0,0.010,0.010"
ExampleLine ==
    <<"5","4",",","0","8","/","2","5","/","2","0","2","3"," ","1","2",":","4",
      "3",":","3","9",".","5","0","0"," ","P","D","T",",","p","t","o",",","P",
      "O","I","N","T"," ","Z"," ","(","-","1","1","2",".","8","3","4","6","1",
      "1","4","9"," ","3","9",".","5","7","3","2","8","9","3","5"," ","1","5",
      "1","0",".","7","4","1",")",",","3","9",".","5","7","3","2","8","9","3",
      "4","8",",","-","1","1","9",".","8","3","4","6","1","1","4","9","2",",",
      "1","5","1","0",".","7","4","1",",","1","5","3","4",".","6","7","2",",",
      "2",".","0","5","0",",","4",",","0",".","0","0","1",",","0",".","0",",",
      "0",".","0","1","0",",","0",".","0","1","0">>

\* matches; the tuple's third component is no number: "7,t,,POINT Z (1.50 -2 zz),a,b,c,03.25,,,,,"
TupleZBadLine ==
    <<"7",",","t",",",",","P","O","I","N","T"," ","Z"," ","(","1",".","5","0",
      " ","-","2"," ","z","z",")",",","a",",","b",",","c",",","0","3",".","2",
      "5",",",",",",",",",",">>

\* matches; group 3 is no number: "8,t,pt,POINT Z (x 2 3),4,5,6,7,8,9,1,2,3"
BadEastingLine ==
    <<"8",",","t",",","p","t",",","P","O","I","N","T"," ","Z"," ","(","x"," ",
      "2"," ","3",")",",","4",",","5",",","6",",","7",",","8",",","9",",","1",
      ",","2",",","3">>

\* matches; group 4 is no number: "9,t,pt,POINT Z (1 n 3),4,5,6,7,8,9,1,2,3"
BadNorthingLine ==
    <<"9",",","t",",","p","t",",","P","O","I","N","T"," ","Z"," ","(","1"," ",
      "n"," ","3",")",",","4",",","5",",","6",",","7",",","8",",","9",",","1",
      ",","2",",","3">>

\* matches; group 6 is empty: "10,t,pt,POINT Z (1 2 3),4,5,6,,8,9,1,2,3"
BadOrthoLine ==
    <<"1","0",",","t",",","p","t",",","P","O","I","N","T"," ","Z"," ","(","1",
      " ","2"," ","3",")",",","4",",","5",",","6",",",",","8",",","9",",","1",
      ",","2",",","3">>

\* a Version-1 line: "6,POINT Z (-119.83559303 52.37266082 1519.457),rebar cone top,"
LegacyLine ==
    <<"6",",","P","O","I","N","T"," ","Z"," ","(","-","1","1","9",".","8","3",
      "5","5","9","3","0","3"," ","5","2",".","3","7","2","6","6","0","8","2",
      " ","1","5","1","9",".","4","5","7",")",",","r","e","b","a","r"," ","c",
      "o","n","e"," ","t","o","p",",">>

\* twelve fields: one short of the pattern: "5,t,pt,POINT Z (1 2 3),4,5,6,7,8,9,1,2"
ShortLine ==
    <<"5",",","t",",","p","t",",","P","O","I","N","T"," ","Z"," ","(","1"," ",
      "2"," ","3",")",",","4",",","5",",","6",",","7",",","8",",","9",",","1",
      ",","2">>

\* the lines a stream fed to swmaps.py is made of
SwLines ==
    {HeaderLit, ExampleLine, TupleZBadLine, BadEastingLine, BadNorthingLine,
     BadOrthoLine, LegacyLine, ShortLine}

\* the values of --renumber
Renumbers == {0, 100, 0 - 60}

\* all sequences over S of length at most n
RECURSIVE SeqsUpTo(_, _)
SeqsUpTo(S, n) ==
    IF n = 0 THEN {<<>>}
    ELSE LET shorter == SeqsUpTo(S, n - 1)
         IN  shorter \cup {Append(s, x) : s \in shorter, x \in S}

\* ------------------------------------------------------------------- state
VARIABLES
    stdin,          \* the lines of standard input
    pos,            \* index of the next line the reading loop takes
    pc,             \* where the program is
    stdout,         \* the lines written to standard output
    renumber,       \* args.renumber, as int() gives it
    meter_to_ft,    \* args.meter_to_ft
    found_header,   \* parse_points_csv: found_header
    points,         \* parse_points_csv: points, then main: points
    points0,        \* points of parse_points_csv(0) over the same stream
    pidx,           \* index of the next element the writing loop takes
    output          \* unit_translate.py: output

vars ==
    <<stdin, pos, pc, stdout, renumber, meter_to_ft, found_header, points,
      points0, pidx, output>>

\* ------------------------------------------------------ swmaps.py: main()
\* main up to the call of parse_points_csv; --verbose only adds lines to
\* stderr, which is not part of the state
Init ==
    /\ stdin \in SeqsUpTo(SwLines, MaxLines)
    /\ renumber \in Renumbers
    /\ meter_to_ft \in BOOLEAN
    /\ pos = 1
    /\ pc = "parse"
    /\ stdout = <<>>
    /\ found_header = FALSE
    /\ points = <<>>
    /\ points0 = <<>>
    /\ pidx = 1
    /\ output = <<>>

\* an iteration of "for l in sys.stdin" is about to run
Reading == pc = "parse" /\ pos <= Len(stdin)

\* the iteration takes the header branch for l
TakesHeader(l) == ~found_header /\ HeaderRe(l)

\* the header branch writing the output header at once
SkipHeaderEcho ==
    /\ pc = "parse" /\ pos <= Len(stdin)
    /\ ~found_header /\ HeaderRe(stdin[pos])
    /\ found_header' = TRUE
    /\ pos' = pos + 1
    /\ stdout' = Append(stdout, HeaderLine(ProjectName, Time1))
    /\ UNCHANGED <<stdin, pc, renumber, meter_to_ft, points, points0, pidx,
                   output>>

\* if not found_header and header_re.match(l): found_header = True; continue
SkipHeader ==
    /\ Reading
    /\ TakesHeader(stdin[pos])
    /\ found_header' = TRUE
    /\ pos' = pos + 1
    /\ UNCHANGED <<stdin, pc, stdout, renumber, meter_to_ft, points, points0,
                   pidx, output>>

\* if not m: vprint("Ignoring unexpected line")
IgnoreLine ==
    /\ Reading
    /\ ~TakesHeader(stdin[pos])
    /\ ~LineRe(stdin[pos]).ok
    /\ pos' = pos + 1
    /\ UNCHANGED <<stdin, pc, stdout, renumber, meter_to_ft, found_header,
                   points, points0, pidx, output>>

\* else: ... points.append(PointPNEZD(...))
ParsePoint ==
    /\ Reading
    /\ ~TakesHeader(stdin[pos])
    /\ LET m == LineRe(stdin[pos])
       IN  /\ m.ok
           /\ ConvertsOk(m)
           /\ points' = AppendPoint(points, MakePoint(m, renumber))
           /\ points0' = AppendPoint(points0, MakePoint(m, 0))
    /\ pos' = pos + 1
    /\ UNCHANGED <<stdin, pc, stdout, renumber, meter_to_ft, found_header,
                   pidx, output>>

\* else: ... a float() of the branch raises ValueError; nothing catches it,
\* so it ends main
ConvertError ==
    /\ Reading
    /\ ~TakesHeader(stdin[pos])
    /\ LET m == LineRe(stdin[pos])
       IN  m.ok /\ ~ConvertsOk(m)
    /\ pc' = "aborted"
    /\ UNCHANGED <<stdin, pos, stdout, renumber, meter_to_ft, found_header,
                   points, points0, pidx, output>>

\* the stream is exhausted: return points
ParseReturn ==
    /\ pc = "parse"
    /\ pos > Len(stdin)
    /\ pc' = "print_header"
    /\ UNCHANGED <<stdin, pos, stdout, renumber, meter_to_ft, found_header,
                   points, points0, pidx, output>>

\* PNEZDFile.print_header("PROJECT_NAME")
PrintHeader ==
    /\ pc = "print_header"
    /\ \E timestamp \in Timestamps :
           stdout' = Append(stdout, HeaderLine(ProjectName, timestamp))
    /\ pc' = "print_line"
    /\ pidx' = 1
    /\ UNCHANGED <<stdin, pos, renumber, meter_to_ft, found_header, points,
                   points0, output>>

\* for p in points: PNEZDFile.print_line(p, convert_to_feet=args.meter_to_ft)
PrintLine ==
    /\ pc = "print_line"
    /\ pidx <= Len(points)
    /\ stdout' = Append(stdout, DataLine(points[pidx], meter_to_ft))
    /\ pidx' = pidx + 1
    /\ UNCHANGED <<stdin, pos, pc, renumber, meter_to_ft, found_header, points,
                   points0, output>>

\* the loop over points is over: main returns
Exit ==
    /\ pc = "print_line"
    /\ pidx > Len(points)
    /\ pc' = "done"
    /\ UNCHANGED <<stdin, pos, stdout, renumber, meter_to_ft, found_header,
                   points, points0, pidx, output>>

Next ==
    \/ SkipHeader
    \/ IgnoreLine
    \/ ParsePoint
    \/ ConvertError
    \/ ParseReturn
    \/ PrintHeader
    \/ PrintLine
    \/ Exit

Spec == Init /\ [][Next]_vars

\* ------------------------------------------------------- unit_translate.py
\* the documented row: "8,2871835.803,6235770.127,1510.741,FND"
ExampleRow ==
    <<"8",",","2","8","7","1","8","3","5",".","8","0","3",",","6","2","3","5",
      "7","7","0",".","1","2","7",",","1","5","1","0",".","7","4","1",",","F",
      "N","D">>

\* a row of six fields: "1,a,b, 3.28,d,extra"
SixFieldRow ==
    <<"1",",","a",",","b",","," ","3",".","2","8",",","d",",","e","x","t","r",
      "a">>

\* field 3 is no number: "2,a,b,x,d"
BadNumberRow ==
    <<"2",",","a",",","b",",","x",",","d">>

\* a row of four fields: "3,a,b,1"
ShortRow ==
    <<"3",",","a",",","b",",","1">>

\* the lines a stream fed to unit_translate.py is made of
UtLines == {ExampleRow, SixFieldRow, BadNumberRow, ShortRow, <<>>}

\* the row csv.reader makes of a line (no quote character in the modelled
\* inputs); an empty line gives the empty row
CsvRow(l) == IF l = <<>> THEN <<>> ELSE Split(l, ",")

StrCell(s) == [t |-> "str", v |-> s]

FloatCell(x) == [t |-> "float", v |-> x]

\* [row[0], row[1], row[2], float(row[3])/FT_PER_METER, row[4]]
RescaledRow(row) ==
    <<StrCell(row[1]), StrCell(row[2]), StrCell(row[3]),
      FloatCell(FloatDiv(ParseFloat(row[4]), FT_PER_METER, FT_PER_METER_PLACES)),
      StrCell(row[5])>>

\* the line csv.writer writes for a row: str() of every cell, joined by commas
CsvLine(row) ==
    Join([j \in 1..Len(row) |->
             IF row[j].t = "float" THEN ReprFloat(row[j].v) ELSE row[j].v], ",")

\* the module up to its loop
InitUT ==
    /\ stdin \in SeqsUpTo(UtLines, MaxLines)
    /\ renumber = 0
    /\ meter_to_ft = FALSE
    /\ pos = 1
    /\ pc = "read"
    /\ stdout = <<>>
    /\ found_header = FALSE
    /\ points = <<>>
    /\ points0 = <<>>
    /\ pidx = 1
    /\ output = <<>>

\* an iteration of "for row in reader" is about to run
ReadingUT == pc = "read" /\ pos <= Len(stdin)

\* the row written as soon as it is converted
AppendRowStreaming ==
    /\ pc = "read" /\ pos <= Len(stdin)
    /\ LET row == CsvRow(stdin[pos])
       IN  /\ Len(row) >= 5
           /\ ParseFloat(row[4]).ok
           /\ output' = Append(output, RescaledRow(row))
           /\ stdout' = Append(stdout, CsvLine(RescaledRow(row)))
    /\ pos' = pos + 1
    /\ UNCHANGED <<stdin, pc, renumber, meter_to_ft, found_header, points,
                   points0, pidx>>

\* output.append([...])
AppendRow ==
    /\ ReadingUT
    /\ LET row == CsvRow(stdin[pos])
       IN  /\ Len(row) >= 5
           /\ ParseFloat(row[4]).ok
           /\ output' = Append(output, RescaledRow(row))
    /\ pos' = pos + 1
    /\ UNCHANGED <<stdin, pc, stdout, renumber, meter_to_ft, found_header,
                   points, points0, pidx>>

\* float(row[3]) raises ValueError; nothing catches it
RowValueError ==
    /\ ReadingUT
    /\ LET row == CsvRow(stdin[pos])
       IN  Len(row) >= 4 /\ ~ParseFloat(row[4]).ok
    /\ pc' = "aborted"
    /\ UNCHANGED <<stdin, pos, stdout, renumber, meter_to_ft, found_header,
                   points, points0, pidx, output>>

\* row[0] .. row[4] raises IndexError; nothing catches it
RowIndexError ==
    /\ ReadingUT
    /\ LET row == CsvRow(stdin[pos])
       IN  Len(row) < 4 \/ (Len(row) = 4 /\ ParseFloat(row[4]).ok)
    /\ pc' = "aborted"
    /\ UNCHANGED <<stdin, pos, stdout, renumber, meter_to_ft, found_header,
                   points, points0, pidx, output>>

\* the reader is exhausted: writer = csv.writer(sys.stdout)
EndRead ==
    /\ pc = "read"
    /\ pos > Len(stdin)
    /\ pc' = "write"
    /\ pidx' = 1
    /\ UNCHANGED <<stdin, pos, stdout, renumber, meter_to_ft, found_header,
                   points, points0, output>>

\* writer.writerows(output), one row
WriteRow ==
    /\ pc = "write"
    /\ pidx <= Len(output)
    /\ stdout' = Append(stdout, CsvLine(output[pidx]))
    /\ pidx' = pidx + 1
    /\ UNCHANGED <<stdin, pos, pc, renumber, meter_to_ft, found_header, points,
                   points0, output>>

\* writerows returns: the module ends
ExitUT ==
    /\ pc = "write"
    /\ pidx > Len(output)
    /\ pc' = "done"
    /\ UNCHANGED <<stdin, pos, stdout, renumber, meter_to_ft, found_header,
                   points, points0, pidx, output>>

NextUT ==
    \/ AppendRow
    \/ RowValueError
    \/ RowIndexError
    \/ EndRead
    \/ WriteRow
    \/ ExitUT

SpecUT == InitUT /\ [][NextUT]_vars

\* ================================================================= claims
\* ------------------------------------------------- vocabulary of the claims
\* the line matches the active column pattern
Matches(l) == LineRe(l).ok

\* the lines whose iteration of the reading loop has run to its end
Consumed == SubSeq(stdin, 1, pos - 1)

\* the lines whose iteration has started: those consumed and, after an
\* abort, the line that raised
Taken == SubSeq(stdin, 1, IF pc = "aborted" THEN pos ELSE pos - 1)

\* the line matches the pattern and every field the code converts is a number
WellFormed(l) == Matches(l) /\ ConvertsOk(LineRe(l))

\* the line matches the pattern and a field the code converts is no number
Malformed(l) == Matches(l) /\ ~ConvertsOk(LineRe(l))

\* a line of stdout is the header line
IsHeaderLine(l) == IsPrefix(HeaderCols \o <<",">>, l)

\* the data lines of stdout
DataLines == SelectSeq(stdout, LAMBDA l : ~IsHeaderLine(l))

\* the float a decimal text denotes, written out
Dec(neg, ip, fp) == [ok |-> TRUE, neg |-> neg, ip |-> ip, fp |-> fp]

\* the record of the documented example line, with the elevation e
ExamplePoint(k, e) ==
    [point |-> 54 + k,
     northing |-> Dec(FALSE, <<"3","9">>, <<"5","7","3","2","8","9","3","5">>),
     easting |-> Dec(TRUE, <<"1","1","2">>, <<"8","3","4","6","1","1","4","9">>),
     elevation_m |-> e,
     description |-> <<"p","t","o">>]

\* 1510.741, the third component of the example's geometry tuple
ExampleTupleZ == Dec(FALSE, <<"1","5","1","0">>, <<"7","4","1">>)

\* 1534.672, the fourth field after the example's geometry tuple
ExampleOrtho == Dec(FALSE, <<"1","5","3","4">>, <<"6","7","2">>)

C2Claim ==
    /\ pc # "aborted"
    /\ Len(points) = Len(SelectSeq(Taken, WellFormed))

\* --------------------------------------------------------------------- C3
\* C3 as stated: a line that does not match the column pattern never aborts
\* the run and gives no record, and when the run has ended the number of
\* records, and of data lines written, is the number of input lines that
\* match the column pattern.
C3Claim ==
    /\ pc = "aborted" => Matches(stdin[pos])
    /\ Len(points) <= Len(SelectSeq(Taken, Matches))
    /\ pc \in {"done", "aborted"} =>
          /\ Len(DataLines) = Len(SelectSeq(stdin, Matches))
          /\ Len(points) = Len(SelectSeq(stdin, Matches))

\* --------------------------------------------------------------------- C6
\* C6: the records parsed with offset renumber are the records parsed with
\* offset 0 over the same stream, in the same order, with renumber added to
\* the point id and nothing else changed.
C6Thm ==
    /\ Len(points) = Len(points0)
    /\ \A i \in 1..Len(points) :
          points[i] = [points0[i] EXCEPT !.point = @ + renumber]

\* two records were parsed with a non-zero offset
C6Witness ==
    /\ pc = "print_header"
    /\ renumber # 0
    /\ Len(points) >= 2
    /\ points[1] # points0[1]

\* --------------------------------------------------------------------- C7
\* C7: when the run has completed, stdout is one header line followed by one
\* data line per record, the i-th data line carrying the id and description
\* of the i-th matching line of the input, and nothing else; an empty input
\* gives the header line alone.
C7Thm ==
    pc = "done" =>
        LET ms == SelectSeq(stdin, Matches)
        IN  /\ Len(stdout) = 1 + Len(points)
            /\ Len(points) = Len(ms)
            /\ IsHeaderLine(stdout[1])
            /\ stdin = <<>> => Len(stdout) = 1
            /\ \A i \in 1..Len(ms) :
                  LET f == Split(stdout[i + 1], ",")
                      m == LineRe(ms[i])
                  IN  /\ ~IsHeaderLine(stdout[i + 1])
                      /\ Len(f) = 5
                      /\ f[1] = StrInt(IntOf(m.g1) + renumber)
                      /\ f[2] = ReprFloat(ParseFloat(m.g4))
                      /\ f[3] = ReprFloat(ParseFloat(m.g3))
                      /\ f[5] = m.g2

\* a completed run that wrote the header and two different data lines
C7Witness ==
    /\ pc = "done"
    /\ Len(stdout) = 3
    /\ stdout[2] # stdout[3]

\* --------------------------------------------------------------------- C8
\* C8: every data line written carries the record's elevation_m divided by
\* 0.30480061 when --meter-to-ft is set and the record's elevation_m itself
\* when it is not; id, northing, easting and description are those of the
\* record whatever the flag, and the lines are as many as the records printed
\* (1534.672 m is written as 5035.003046... ft).
C8Thm ==
    /\ pc \in {"print_line", "done"} => Len(stdout) = pidx
    /\ \A i \in 2..Len(stdout) :
          LET f == Split(stdout[i], ",")
              p == points[i - 1]
          IN  /\ Len(f) = 5
              /\ f[1] = StrInt(p.point)
              /\ f[2] = ReprFloat(p.northing)
              /\ f[3] = ReprFloat(p.easting)
              /\ f[5] = p.description
              /\ ~meter_to_ft => f[4] = ReprFloat(p.elevation_m)
              /\ meter_to_ft =>
                    f[4] = ReprFloat(FloatDiv(p.elevation_m, METER_PER_US_SURVEY_FT,
                                              METER_PER_US_SURVEY_FT_PLACES))
              /\ (meter_to_ft /\ p.elevation_m = ExampleOrtho) =>
                    IsPrefix(<<"5","0","3","5",".","0","0","3","0","4","6">>, f[4])

\* the example record was written in feet
C8Witness ==
    /\ pc = "done"
    /\ meter_to_ft
    /\ Len(stdout) >= 2
    /\ points[1].elevation_m = ExampleOrtho
    /\ Split(stdout[2], ",")[4] # ReprFloat(points[1].elevation_m)

\* --------------------------------------------------------------------- C9
\* C9 as stated: in an iteration of the reading loop the header flag, once
\* set, stays set; only a header line met with the flag clear is consumed as
\* the header, giving no record; and every line matching the column pattern
\* gives a record, whatever the flag.
C9Claim ==
    [][(pc = "parse" /\ pos <= Len(stdin)) =>
          /\ found_header => found_header'
          /\ (found_header' /\ ~found_header) =>
                (HeaderRe(stdin[pos]) /\ points' = points)
          /\ Matches(stdin[pos]) => Len(points') = Len(points) + 1]_vars

\* what does hold of the header flag: it is never cleared, it is set only by
\* a header line met with the flag clear, which gives no record, and a line
\* matching the column pattern whose converted fields are numbers gives a
\* record whatever the flag
HeaderNeverGates ==
    [][(pc = "parse" /\ pos <= Len(stdin)) =>
          /\ found_header => found_header'
          /\ (found_header' /\ ~found_header) =>
                (HeaderRe(stdin[pos]) /\ points' = points)
          /\ WellFormed(stdin[pos]) => Len(points') = Len(points) + 1]_vars

\* what does hold of the lines that do not match: the run aborts only on a
\* line that matches, and the records never outnumber the matching lines
NonMatchingHarmless ==
    /\ pc = "aborted" => Malformed(stdin[pos])
    /\ Len(points) = Len(SelectSeq(Consumed, Matches))

\* -------------------------------------------------------------------- C10
\* C10: while the input is still being parsed, and after parsing has aborted,
\* stdout is empty: nothing is written before the whole stream is consumed.
C10Thm ==
    (pc \in {"parse", "aborted"} \/ pos <= Len(stdin)) => stdout = <<>>

\* parsing aborted after a record had been parsed and nothing was written
C10Witness ==
    /\ pc = "aborted"
    /\ found_header
    /\ Len(points) >= 1
    /\ stdout = <<>>

\* ------------------------------------------- vocabulary, unit_translate.py
\* the row of the line converts: five fields or more, field 3 a number
RowOk(l) == LET row == CsvRow(l) IN Len(row) >= 5 /\ ParseFloat(row[4]).ok

\* field 3 of the row is there and is no number
BadNumber(l) == LET row == CsvRow(l) IN Len(row) >= 4 /\ ~ParseFloat(row[4]).ok

\* --------------------------------------------------------------------- C4
\* C4 as stated: when the run has ended, the output has one row per input
\* row, in order, and for every input row of five fields or more the output
\* row has as many fields, field 3 being the input's number divided by
\* 3.2808399 and every other field, those at index 5 and beyond included,
\* the input's field.
C4Claim ==
    pc = "done" =>
        /\ Len(stdout) = Len(stdin)
        /\ \A i \in 1..Len(stdin) :
              LET in == CsvRow(stdin[i])
                  out == Split(stdout[i], ",")
              IN  Len(in) >= 5 =>
                     /\ Len(out) = Len(in)
                     /\ \A j \in 1..Len(in) :
                           out[j] = IF j = 4
                                    THEN ReprFloat(FloatDiv(ParseFloat(in[4]),
                                             FT_PER_METER, FT_PER_METER_PLACES))
                                    ELSE in[j]

\* --------------------------------------------------------------------- C5
\* C5: the run aborts at the first row that does not convert and takes no
\* later row; when a row's field 3 is no number the run never gets past that
\* row, never completes and never writes a line, the well-formed rows before
\* it included; a line is written only when every input row converted.
C5Thm ==
    /\ pc = "aborted" =>
          /\ stdout = <<>>
          /\ ~RowOk(stdin[pos])
          /\ \A i \in 1..(pos - 1) : RowOk(stdin[i])
          /\ Len(output) = pos - 1
    /\ \A i \in 1..Len(stdin) :
          BadNumber(stdin[i]) =>
              /\ stdout = <<>>
              /\ pc \in {"read", "aborted"}
              /\ pos <= i
              /\ (pc = "aborted" /\ \A j \in 1..i : Len(CsvRow(stdin[j])) >= 5) =>
                    (pos = i \/ \E j \in 1..(i - 1) : BadNumber(stdin[j]))
    /\ stdout # <<>> => \A i \in 1..Len(stdin) : RowOk(stdin[i])

\* the run aborted on a bad number after converting a well-formed row
C5Witness ==
    /\ pc = "aborted"
    /\ pos >= 2
    /\ BadNumber(stdin[pos])
    /\ Len(output) = pos - 1
    /\ stdout = <<>>

====
